---- MODULE Spec2Model ----
(***************************************************************************)
(* A model of artnet-rescaler (src/src/main.rs): the dispatch loop of      *)
(* run_rescale, the network receiver, the control-surface callback, the    *)
(* OSC forwarder, and the two transforms rescale_universe/remap_universe.  *)
(*                                                                         *)
(* Representation choices:                                                 *)
(*  - A UnipolarFloat is held as its numerator over ScaleDen = 254, so     *)
(*    1.0 is 254, 0.5 is 127 and val/127 is 2*val.  For every numerator    *)
(*    n in 0..254 and every byte v in 0..255 the f64 computation           *)
(*    ((v as f64) * (n/254)) as u8 equals (v*n) \div 254 (checked          *)
(*    exhaustively in IEEE double arithmetic), so the integer formula is   *)
(*    what the code computes.                                              *)
(*  - A payload is a sequence of bytes; code position p (0-based) is       *)
(*    element p+1.                                                         *)
(*  - A socket address is <<ip, port>>.                                    *)
(***************************************************************************)
EXTENDS Integers, Sequences, FiniteSets, TLC

\* ---------------------------------------------------------------- constants

PORT == 6454

BufLen == 512

MidiMax == 127

ScaleDen == 2 * MidiMax

\* UnipolarFloat::ONE
ONE == ScaleDen

ShortName == "rescaler"

\* ------------------------------------------------------------------- bounds

\* Events (datagrams that enqueue, control-surface events) taken from the
\* environment in one run.
MaxMsgs == 3

\* Longest payload and longest rule list handed to a transform on its own.
MaxLen == 4

MaxRules == 2

\* Longest run of datagrams handed to the receiver on its own.
MaxDgs == 2

\* --------------------------------------------------------------- transforms

Min(a, b) == IF a < b THEN a ELSE b

\* val as f64 / 127., clamped to [0,1] by UnipolarFloat::new.
unipolar_from_midi(val) == 2 * Min(val, MidiMax)

\* A faulty variant of the cast in rescale_universe: round to nearest, not truncate.
RescaleByteRound(scale, v) == (2 * v * scale + ScaleDen) \div (2 * ScaleDen)

\* ((*val as f64) * scale.val()) as u8
RescaleByte(scale, v) == (v * scale) \div ScaleDen

rescale_universe(scale, data) ==
    [i \in 1..Len(data) |-> RescaleByte(scale, data[i])]

\* input.get(remap.start..remap.start+remap.length)
SourceInRange(remap, input) == remap.start + remap.length <= Len(input)

\* buffer[remap.new_start..remap.new_start + remap.length]: indexing past the
\* end of the 512-byte vector panics.
DestInRange(remap) == remap.new_start + remap.length <= BufLen

\* A faulty variant of the copy: a byte already written by an earlier rule is kept.
CopyRuleFirstWins(remap, input, buffer) ==
    [p \in 1..BufLen |->
        IF remap.new_start < p /\ p <= remap.new_start + remap.length
           /\ buffer[p] = 0
        THEN input[remap.start + (p - remap.new_start)]
        ELSE buffer[p]]

\* buffer[new_start..new_start+length].copy_from_slice(vals)
CopyRule(remap, input, buffer) ==
    [p \in 1..BufLen |->
        IF remap.new_start < p /\ p <= remap.new_start + remap.length
        THEN input[remap.start + (p - remap.new_start)]
        ELSE buffer[p]]

\* A faulty variant of the loop: a rule out of the input's range ends the loop (break
\* for continue).
RECURSIVE RemapFromBreak(_, _, _, _)
RemapFromBreak(remappings, k, input, buffer) ==
    IF k > Len(remappings) \/ ~SourceInRange(remappings[k], input)
    THEN [panicked |-> FALSE, data |-> buffer]
    ELSE IF ~DestInRange(remappings[k])
         THEN [panicked |-> TRUE, data |-> <<>>]
         ELSE RemapFromBreak(remappings, k + 1, input,
                             CopyRule(remappings[k], input, buffer))

\* A faulty variant of the loop: the rules are taken from the last to the first.
RECURSIVE RemapFromReversed(_, _, _, _)
RemapFromReversed(remappings, k, input, buffer) ==
    IF k > Len(remappings)
    THEN [panicked |-> FALSE, data |-> buffer]
    ELSE LET remap == remappings[Len(remappings) + 1 - k] IN
         IF ~SourceInRange(remap, input)
         THEN RemapFromReversed(remappings, k + 1, input, buffer)
         ELSE IF ~DestInRange(remap)
              THEN [panicked |-> TRUE, data |-> <<>>]
              ELSE RemapFromReversed(remappings, k + 1, input,
                                     CopyRule(remap, input, buffer))

\* The for loop of remap_universe from rule k on.  The result is the buffer,
\* or panicked when a copy indexes the buffer out of range.
RECURSIVE RemapFrom(_, _, _, _)
RemapFrom(remappings, k, input, buffer) ==
    IF k > Len(remappings)
    THEN [panicked |-> FALSE, data |-> buffer]
    ELSE IF ~SourceInRange(remappings[k], input)
         THEN RemapFrom(remappings, k + 1, input, buffer)
         ELSE IF ~DestInRange(remappings[k])
              THEN [panicked |-> TRUE, data |-> <<>>]
              ELSE RemapFrom(remappings, k + 1, input,
                             CopyRule(remappings[k], input, buffer))

ZeroBuffer == [p \in 1..BufLen |-> 0]

remap_universe(remappings, input) == RemapFrom(remappings, 1, input, ZeroBuffer)

\* ------------------------------------------------------------ configuration
\* The configuration the model runs: three configured universes and the
\* control-surface/OSC settings.

\* Config::actions: the action table, keyed by universe.
actions ==
    [u \in {0, 1, 2} |->
        CASE u = 0 -> [rescale |-> TRUE, remap |-> <<>>,
                       destination |-> "10.0.0.1"]
          [] u = 1 -> [rescale |-> FALSE,
                       remap |-> << [start |-> 0, length |-> 2, new_start |-> 20],
                                    [start |-> 0, length |-> 1, new_start |-> 10] >>,
                       destination |-> "10.0.0.2"]
          [] u = 2 -> [rescale |-> TRUE,
                       remap |-> << [start |-> 0, length |-> 1, new_start |-> 5],
                                    [start |-> 0, length |-> 2, new_start |-> 511] >>,
                       destination |-> "10.0.0.1"]]

\* config.rescale_midi_control, as <<channel, control>>
rescale_control == <<0, 1>>

\* config.osc_forward.mappings, collected into a map
mapping == [c \in {<<0, 2>>} |-> "/fader"]

\* config.osc_forward.destination
osc_dest == <<"10.0.0.9", 9000>>

\* -------------------------------------------------------------- environment
\* What the network and the control surface can deliver.

MidiVals == {64, 127}

\* Raw control-surface events <<status, data1, data2>>: control changes on
\* channels 0 and 1 for controllers 1 and 2, and a note off, a note on and a
\* program change.
MidiMsgs ==
    {<<st, c, v>> : st \in {176, 177}, c \in {1, 2}, v \in MidiVals}
    \cup {<<128, 1, 64>>, <<144, 1, 64>>, <<192, 1, 64>>}

FrameData == {<<200>>, <<7, 255>>}

PollSources == {<<"192.168.0.5", PORT>>, <<"192.168.0.6", 40000>>}

\* What recv_from can deliver: ArtCommands (a Poll, an Output, a PollReply as
\* one of the other kinds) and a datagram that from_buffer fails to decode.
Datagrams ==
    {[kind |-> "Poll", from |-> a, universe |-> 0, data |-> <<>>] : a \in PollSources}
    \cup {[kind |-> "Output", from |-> a, universe |-> u, data |-> d] :
            a \in {<<"192.168.0.5", PORT>>}, u \in 0..3, d \in FrameData}
    \cup {[kind |-> k, from |-> <<"192.168.0.5", PORT>>, universe |-> 0,
           data |-> <<>>] : k \in {"PollReply", "Malformed"}}

\* ----------------------------------------------------------------- messages

NoAddr == <<"", 0>>

\* enum Action.  `from` is not part of the Action: it records the source
\* address of the datagram a PollResp was made from.
ScaleMsg(v) == [type |-> "Scale", val |-> v, addr |-> NoAddr, universe |-> 0,
                data |-> <<>>, from |-> NoAddr]

PacketMsg(u, d) == [type |-> "Packet", val |-> 0, addr |-> NoAddr, universe |-> u,
                    data |-> d, from |-> NoAddr]

PollRespMsg(a, from) == [type |-> "PollResp", val |-> 0, addr |-> a,
                         universe |-> 0, data |-> <<>>, from |-> from]

\* -------------------------------------------------------------------- state

VARIABLES
    midiOpen,    \* Input::new returned Ok: the control-surface callback is live
    queue,       \* the dispatch channel: Actions sent and not yet received
    oscQueue,    \* the OSC forwarder's channel: (MidiControl, u8) pairs
    scale,       \* run_rescale's local `scale`
    mainPc,      \* the dispatch loop: "loop", or "panicked" (the process is gone)
    oscPc,       \* the OSC forwarder thread: "loop" or "panicked"
    effects,     \* what the dispatch loop has done, in order: scale
                 \* assignments and send_to calls on the socket
    handled,     \* the Actions the dispatch loop has received, in order, each
                 \* with the scale it found and how its handling ended
    oscSent,     \* the OSC forwarder's send_to calls, in order
    oscHandled,  \* the pairs the OSC forwarder has received, in order
    tArgs,       \* a function called on its own: its arguments
    tRes,        \* and its result
    recvPc,      \* the network receiver thread: "loop" or "stopped"
    produced     \* for each producer, the Actions it has sent, in order

vars == <<midiOpen, queue, oscQueue, scale, mainPc, oscPc, effects, handled,
          oscSent, oscHandled, tArgs, tRes, recvPc, produced>>

sysVars == <<midiOpen, queue, oscQueue, scale, mainPc, oscPc, effects, handled,
             oscSent, oscHandled, recvPc, produced>>

NoCall == [fn |-> "none"]

\* ------------------------------------------------------- the dispatch loop
\* The state the loop of run_rescale owns, as one value, so that the match
\* arms are functions of it.

DispatchState == [scale |-> scale, effects |-> effects, handled |-> handled,
                  pc |-> mainPc]

Effect(id, kind, dest, universe, data, val, name, ok) ==
    [id |-> id, kind |-> kind, dest |-> dest, universe |-> universe,
     data |-> data, val |-> val, name |-> name, ok |-> ok]

Done(d, id, msg, outcome) ==
    Append(d.handled, [id |-> id, msg |-> msg, scale |-> d.scale,
                       outcome |-> outcome])

SendOutcome(sendOk) == IF sendOk THEN "sent" ELSE "send_failed"

\* poll_response(): the PollReply this node answers with; only the short name
\* is not a default.
poll_response == [short_name |-> ShortName]

\* A faulty variant of the PollResp arm: answering a poll puts the scale back to 1.0.
OnPollRespReset(d, id, msg, encOk, sendOk) ==
    IF ~encOk
    THEN [d EXCEPT !.handled = Done(d, id, msg, "encode_failed")]
    ELSE [d EXCEPT
            !.scale = ONE,
            !.effects = Append(@, Effect(id, "PollReply", msg.addr, 0, <<>>, 0,
                                         poll_response.short_name, sendOk)),
            !.handled = Done(d, id, msg, SendOutcome(sendOk))]

\* Action::PollResp(addr) => ...
OnPollResp(d, id, msg, encOk, sendOk) ==
    IF ~encOk
    THEN [d EXCEPT !.handled = Done(d, id, msg, "encode_failed")]
    ELSE [d EXCEPT
            !.effects = Append(@, Effect(id, "PollReply", msg.addr, 0, <<>>, 0,
                                         poll_response.short_name, sendOk)),
            !.handled = Done(d, id, msg, SendOutcome(sendOk))]

\* A faulty variant of the Scale arm: the update is recorded but never stored.
OnScaleStale(d, id, msg) ==
    [d EXCEPT !.effects = Append(@, Effect(id, "Scale", NoAddr, 0, <<>>, msg.val,
                                           "", TRUE)),
              !.handled = Done(d, id, msg, "scaled")]

\* Action::Scale(val) => scale = val
OnScale(d, id, msg) ==
    [d EXCEPT !.scale = msg.val,
              !.effects = Append(@, Effect(id, "Scale", NoAddr, 0, <<>>, msg.val,
                                           "", TRUE)),
              !.handled = Done(d, id, msg, "scaled")]

\* if action.rescale { rescale_universe(scale, &mut output) }
AfterRescale(action, s, data) ==
    IF action.rescale THEN rescale_universe(s, data) ELSE data

\* if !action.remap.is_empty() { remap_universe(&action.remap, &mut output) }
AfterRemap(action, data) ==
    IF action.remap # <<>>
    THEN remap_universe(action.remap, data)
    ELSE [panicked |-> FALSE, data |-> data]

\* SocketAddrV4::new(action.destination, PORT)
OutputDest(action) == <<action.destination, PORT>>

\* A faulty variant of the Packet arm: an encoding error is returned with `?`, which
\* ends the loop.
RelayBail(d, id, msg, action, encOk, sendOk) ==
    LET out == AfterRemap(action, AfterRescale(action, d.scale, msg.data))
    IN  IF out.panicked \/ ~encOk
        THEN [d EXCEPT !.pc = "panicked",
                       !.handled = Done(d, id, msg,
                                        IF out.panicked THEN "panicked"
                                        ELSE "encode_failed")]
        ELSE [d EXCEPT
                !.effects = Append(@, Effect(id, "Output", OutputDest(action),
                                             msg.universe, out.data, 0, "",
                                             sendOk)),
                !.handled = Done(d, id, msg, SendOutcome(sendOk))]

\* A faulty variant of the Packet arm: the remap buffer is allocated once, before
\* the loop, and not cleared: a frame is remapped onto the last Output's bytes.
RelayKeepsBuffer(d, id, msg, action, encOk, sendOk) ==
    LET prev == SelectSeq(d.effects,
                          LAMBDA e : e.kind = "Output" /\ Len(e.data) = BufLen)
        buffer == IF prev = <<>> THEN ZeroBuffer ELSE prev[Len(prev)].data
        data == AfterRescale(action, d.scale, msg.data)
        out == IF action.remap # <<>>
               THEN RemapFrom(action.remap, 1, data, buffer)
               ELSE [panicked |-> FALSE, data |-> data]
    IN  IF out.panicked
        THEN [d EXCEPT !.pc = "panicked",
                       !.handled = Done(d, id, msg, "panicked")]
        ELSE IF ~encOk
             THEN [d EXCEPT !.handled = Done(d, id, msg, "encode_failed")]
             ELSE [d EXCEPT
                     !.effects = Append(@, Effect(id, "Output", OutputDest(action),
                                                  msg.universe, out.data, 0, "",
                                                  sendOk)),
                     !.handled = Done(d, id, msg, SendOutcome(sendOk))]

\* The Packet arm once the universe's entry is found: transform, encode,
\* send.
Relay(d, id, msg, action, encOk, sendOk) ==
    LET out == AfterRemap(action, AfterRescale(action, d.scale, msg.data))
    IN  IF out.panicked
        THEN [d EXCEPT !.pc = "panicked",
                       !.handled = Done(d, id, msg, "panicked")]
        ELSE IF ~encOk
             THEN [d EXCEPT !.handled = Done(d, id, msg, "encode_failed")]
             ELSE [d EXCEPT
                     !.effects = Append(@, Effect(id, "Output", OutputDest(action),
                                                  msg.universe, out.data, 0, "",
                                                  sendOk)),
                     !.handled = Done(d, id, msg, SendOutcome(sendOk))]

\* A faulty variant of the Packet arm: a universe without an entry is relayed
\* untouched to the broadcast address.
OnPacketDefault(d, id, msg, encOk, sendOk) ==
    Relay(d, id, msg,
          IF msg.universe \in DOMAIN actions
          THEN actions[msg.universe]
          ELSE [rescale |-> FALSE, remap |-> <<>>,
                destination |-> "255.255.255.255"],
          encOk, sendOk)

\* Action::Packet(mut output) => ...
OnPacket(d, id, msg, encOk, sendOk) ==
    IF msg.universe \notin DOMAIN actions
    THEN [d EXCEPT !.handled = Done(d, id, msg, "dropped")]
    ELSE Relay(d, id, msg, actions[msg.universe], encOk, sendOk)

\* match action { ... }: one iteration of the loop on a received Action.
Step(d, id, msg, encOk, sendOk) ==
    CASE msg.type = "PollResp" -> OnPollResp(d, id, msg, encOk, sendOk)
      [] msg.type = "Scale" -> OnScale(d, id, msg)
      [] msg.type = "Packet" -> OnPacket(d, id, msg, encOk, sendOk)

\* The loop run on a given sequence of Actions from the state run_rescale
\* starts it in, every encode and send succeeding.
RECURSIVE RunFrom(_, _, _)
RunFrom(d, msgs, k) ==
    IF k > Len(msgs) \/ d.pc # "loop"
    THEN d
    ELSE RunFrom(Step(d, k, msgs[k], TRUE, TRUE), msgs, k + 1)

RunLoop(msgs) ==
    RunFrom([scale |-> ONE, effects |-> <<>>, handled |-> <<>>, pc |-> "loop"],
            msgs, 1)

Commit(d) ==
    /\ scale' = d.scale
    /\ effects' = d.effects
    /\ handled' = d.handled
    /\ mainPc' = d.pc

\* A faulty variant of the receive: the newest message first.
RecvLast(q) == [entry |-> q[Len(q)], rest |-> SubSeq(q, 1, Len(q) - 1)]

\* recv.recv(): the oldest message of the channel.
Recv(q) == [entry |-> Head(q), rest |-> Tail(q)]

Dispatching(type) ==
    /\ mainPc = "loop"
    /\ queue # <<>>
    /\ Recv(queue).entry.msg.type = type
    /\ queue' = Recv(queue).rest
    /\ UNCHANGED <<midiOpen, oscQueue, oscPc, oscSent, oscHandled, tArgs, tRes,
                   recvPc, produced>>

HandlePollResp ==
    /\ Dispatching("PollResp")
    /\ \E encOk \in BOOLEAN, sendOk \in BOOLEAN :
          Commit(Step(DispatchState, Recv(queue).entry.id,
                      Recv(queue).entry.msg, encOk, sendOk))

HandleScale ==
    /\ Dispatching("Scale")
    /\ Commit(Step(DispatchState, Recv(queue).entry.id, Recv(queue).entry.msg,
                    TRUE, TRUE))

HandlePacket ==
    /\ Dispatching("Packet")
    /\ \E encOk \in BOOLEAN, sendOk \in BOOLEAN :
          Commit(Step(DispatchState, Recv(queue).entry.id,
                      Recv(queue).entry.msg, encOk, sendOk))

\* ------------------------------------------------------------- producers

Arrived == Len(handled) + Len(queue)

Room == Arrived + Len(oscHandled) + Len(oscQueue) < MaxMsgs

\* The two threads that hold a Sender of the dispatch channel.
Producers == {"net", "midi"}

\* A faulty variant of the send: the message goes to the front of the channel.
SendFront(producer, msg) ==
    /\ queue' = <<[id |-> Arrived + 1, msg |-> msg]>> \o queue
    /\ produced' = [produced EXCEPT ![producer] = Append(@, msg)]

\* artnet_send.send(action) / sender.send(action)
Send(producer, msg) ==
    /\ queue' = Append(queue, [id |-> Arrived + 1, msg |-> msg])
    /\ produced' = [produced EXCEPT ![producer] = Append(@, msg)]

\* A faulty variant of the reply address: the poll's source port is kept.
ReplyAddrKeepPort(from) == from

\* addr.set_port(PORT)
ReplyAddr(from) == <<from[1], PORT>>

\* receive_artnet: the Result<Option<Action>> for a datagram, the Option as a
\* sequence of at most one Action.
receive_artnet(dg) ==
    CASE dg.kind = "Malformed" -> [ok |-> FALSE, action |-> <<>>]
      [] dg.kind = "Poll" ->
            [ok |-> TRUE,
             action |-> <<PollRespMsg(ReplyAddr(dg.from), dg.from)>>]
      [] dg.kind = "Output" ->
            [ok |-> TRUE, action |-> <<PacketMsg(dg.universe, dg.data)>>]
      [] OTHER -> [ok |-> TRUE, action |-> <<>>]

\* A faulty variant of the receiver's match: an Err ends the loop (break after
\* the log line).
ReceiverAfterBreak(r) == IF r.ok THEN "loop" ELSE "stopped"

\* The match in the receiver thread's loop: after Ok(Some), Ok(None) and Err
\* alike the next iteration follows.
ReceiverAfter(r) == "loop"

Receiving == mainPc = "loop" /\ recvPc = "loop"

\* receive_artnet: ArtCommand::Poll(_) => PollResp(addr with port PORT)
ReceiveArtnetPoll ==
    /\ Receiving /\ Room
    /\ \E dg \in Datagrams :
          /\ dg.kind = "Poll"
          /\ Send("net", receive_artnet(dg).action[1])
          /\ recvPc' = ReceiverAfter(receive_artnet(dg))
    /\ UNCHANGED <<midiOpen, oscQueue, scale, mainPc, oscPc, effects, handled,
                   oscSent, oscHandled, tArgs, tRes>>

\* receive_artnet: ArtCommand::Output(output) => Packet(output)
ReceiveArtnetOutput ==
    /\ Receiving /\ Room
    /\ \E dg \in Datagrams :
          /\ dg.kind = "Output"
          /\ Send("net", receive_artnet(dg).action[1])
          /\ recvPc' = ReceiverAfter(receive_artnet(dg))
    /\ UNCHANGED <<midiOpen, oscQueue, scale, mainPc, oscPc, effects, handled,
                   oscSent, oscHandled, tArgs, tRes>>

\* receive_artnet: _ => Ok(None) for a command that is neither Poll nor
\* Output, and the Err of recv_from or from_buffer, which the receive loop
\* logs: nothing is enqueued.
ReceiveArtnetNothing ==
    /\ Receiving
    /\ \E pc \in {ReceiverAfter(receive_artnet(dg)) :
                      dg \in {d \in Datagrams : receive_artnet(d).action = <<>>}} :
          recvPc' = pc
    /\ UNCHANGED <<midiOpen, queue, oscQueue, scale, mainPc, oscPc, effects,
                   handled, oscSent, oscHandled, tArgs, tRes, produced>>

\* The closure given to input.connect.
EventNibble(m) == m[1] \div 16

MidiControlOf(m) == <<m[1] % 16, m[2]>>

NoSends == [action |-> <<>>, osc |-> <<>>]

\* A faulty variant of the closure: no return after the Scale is sent, so the
\* event is forwarded for OSC as well.
midi_callback_fallthrough(m) ==
    IF EventNibble(m) # 11
    THEN NoSends
    ELSE [action |-> IF MidiControlOf(m) = rescale_control
                     THEN <<ScaleMsg(unipolar_from_midi(m[3]))>>
                     ELSE <<>>,
          osc |-> << <<MidiControlOf(m), m[3]>> >>]

\* The closure on one raw event: what it sends on the dispatch channel and on
\* the OSC channel.
midi_callback(m) ==
    IF EventNibble(m) \notin {8, 9, 11}
    THEN NoSends
    ELSE IF EventNibble(m) # 11
         THEN NoSends
         ELSE IF MidiControlOf(m) = rescale_control
              THEN [action |-> <<ScaleMsg(unipolar_from_midi(m[3]))>>,
                    osc |-> <<>>]
              ELSE [action |-> <<>>, osc |-> << <<MidiControlOf(m), m[3]>> >>]

\* An event that is not a control change: unimplemented kinds are logged,
\* note on and note off are dropped.
MidiIgnored ==
    /\ mainPc = "loop" /\ midiOpen
    /\ {m \in MidiMsgs : midi_callback(m) = NoSends} # {}
    /\ UNCHANGED vars

MidiScale ==
    /\ mainPc = "loop" /\ midiOpen /\ Room
    /\ \E m \in MidiMsgs :
          /\ midi_callback(m).action # <<>>
          /\ Send("midi", midi_callback(m).action[1])
          /\ oscQueue' = oscQueue \o midi_callback(m).osc
    /\ UNCHANGED <<midiOpen, scale, mainPc, oscPc, effects, handled,
                   oscSent, oscHandled, tArgs, tRes, recvPc>>

MidiForward ==
    /\ mainPc = "loop" /\ midiOpen /\ Room
    /\ \E m \in MidiMsgs :
          /\ midi_callback(m).action = <<>>
          /\ midi_callback(m).osc # <<>>
          /\ oscQueue' = oscQueue \o midi_callback(m).osc
    /\ UNCHANGED <<midiOpen, queue, scale, mainPc, oscPc, effects, handled,
                   oscSent, oscHandled, tArgs, tRes, recvPc, produced>>

\* ---------------------------------------------------------- OSC forwarder

OscDone(ev, outcome) == Append(oscHandled, [ev |-> ev, outcome |-> outcome])

OscReceiving ==
    /\ mainPc = "loop" /\ oscPc = "loop"
    /\ oscQueue # <<>>
    /\ oscQueue' = Tail(oscQueue)
    /\ UNCHANGED <<midiOpen, queue, scale, mainPc, effects, handled, tArgs,
                   tRes, recvPc, produced>>

\* A faulty variant of the lookup: an unmapped control ends the forwarder (`?` or
\* unwrap instead of continue).
OscAfterUnmappedStop == "panicked"

\* let Some(osc_control) = ... else { warn!(...); continue }
OscAfterUnmapped == "loop"

OscUnmapped ==
    /\ OscReceiving
    /\ Head(oscQueue)[1] \notin DOMAIN mapping
    /\ oscHandled' = OscDone(Head(oscQueue), "unmapped")
    /\ oscPc' = OscAfterUnmapped
    /\ UNCHANGED oscSent

\* An OscMessage to the mapped address with the value as one Double.
OscMessageFor(ev) == [addr |-> mapping[ev[1]], arg |-> unipolar_from_midi(ev[2])]

\* socket.send_to(&msg_buf, dest); n is the number of the event in oscHandled.
OscSend(ev, sendOk) ==
    Append(oscSent, [n |-> Len(oscHandled) + 1, msg |-> OscMessageFor(ev),
                     dest |-> osc_dest, ok |-> sendOk])

OscForward ==
    /\ OscReceiving
    /\ Head(oscQueue)[1] \in DOMAIN mapping
    /\ oscPc' = oscPc
    /\ \E encOk \in BOOLEAN, sendOk \in BOOLEAN :
          IF ~encOk
          THEN /\ oscHandled' = OscDone(Head(oscQueue), "encode_failed")
               /\ UNCHANGED oscSent
          ELSE /\ oscSent' = OscSend(Head(oscQueue), sendOk)
               /\ oscHandled' = OscDone(Head(oscQueue), SendOutcome(sendOk))

\* recv.recv().unwrap() once every Sender is gone: Input::new failed and
\* dropped the only one.
OscDisconnected ==
    /\ mainPc = "loop" /\ oscPc = "loop"
    /\ ~midiOpen
    /\ oscQueue = <<>>
    /\ oscPc' = "panicked"
    /\ UNCHANGED <<midiOpen, queue, oscQueue, scale, mainPc, effects, handled,
                   oscSent, oscHandled, tArgs, tRes, recvPc, produced>>

\* ----------------------------------------------------------- specification

\* A faulty variant of the check on Input::new: its error is returned with `?`, so
\* run_rescale ends before the loop.
AfterMidiOpenBail(ok) == IF ok THEN "loop" ELSE "panicked"

\* if let Err(err) = &input { error!(...) }: logged, and run_rescale goes on
\* to the loop either way.
AfterMidiOpen(ok) == "loop"

Init ==
    /\ midiOpen \in BOOLEAN
    /\ queue = <<>>
    /\ oscQueue = <<>>
    /\ scale = ONE
    /\ mainPc = AfterMidiOpen(midiOpen)
    /\ oscPc = "loop"
    /\ effects = <<>>
    /\ handled = <<>>
    /\ oscSent = <<>>
    /\ oscHandled = <<>>
    /\ tArgs = NoCall
    /\ tRes = NoCall
    /\ recvPc = "loop"
    /\ produced = [p \in Producers |-> <<>>]

Next ==
    \/ HandlePollResp
    \/ HandleScale
    \/ HandlePacket
    \/ ReceiveArtnetPoll
    \/ ReceiveArtnetOutput
    \/ ReceiveArtnetNothing
    \/ MidiIgnored
    \/ MidiScale
    \/ MidiForward
    \/ OscUnmapped
    \/ OscForward
    \/ OscDisconnected

Spec == Init /\ [][Next]_vars

\* One iteration of the dispatch loop.
Dispatch == HandlePollResp \/ HandleScale \/ HandlePacket

\* The same system with the main thread scheduled fairly: recv.recv() returns
\* whenever the channel holds a message, and the match arm runs.
SpecLive == Spec /\ WF_vars(Dispatch)

\* -------------------------------------------- the functions on their own
\* rescale_universe, remap_universe, the control-surface closure and the
\* receiver's loop are functions of their arguments; this specification calls
\* each once on arguments drawn from bounded sets.

\* Every byte value once: 0, 1, ..., 255.
AllBytes == [i \in 1..256 |-> i - 1]

\* Payloads 1, 2, ..., n: distinct and non-zero, so that every byte of a
\* remapped buffer shows where it came from.
Ramp(n) == [i \in 1..n |-> i]

RescaleCalls ==
    {[fn |-> "rescale", scale |-> s, data |-> d] :
        s \in 0..ScaleDen,
        d \in {AllBytes} \cup {Ramp(n) : n \in 0..MaxLen}}

RuleSet ==
    {[start |-> s, length |-> l, new_start |-> d] :
        s \in {0, 1}, l \in {2, 3}, d \in {10, 11, BufLen - 2}}
    \cup {[start |-> 0, length |-> 0, new_start |-> d] : d \in {BufLen, BufLen + 1}}

RuleLists ==
    UNION {[1..n -> RuleSet] : n \in 1..MaxRules}

RemapCalls ==
    {[fn |-> "remap", remappings |-> r, data |-> Ramp(n)] :
        r \in RuleLists, n \in 0..MaxLen}

\* Raw control-surface events of every kind: note off, note on, aftertouch,
\* control change on channels 0, 1 and 15, program change, pitch bend.
MidiCalls ==
    {[fn |-> "midi", msg |-> <<st, c, v>>] :
        st \in {128, 144, 160, 176, 177, 191, 192, 224},
        c \in 0..2, v \in {0, 1, 64, 127}}

ReceiveCalls ==
    {[fn |-> "receive", dgs |-> dgs] :
        dgs \in UNION {[1..n -> Datagrams] : n \in 1..MaxDgs}}

\* The receiver thread's loop on a given run of datagrams: what it has sent on
\* the dispatch channel and whether it is still looping.
RECURSIVE RunReceiverFrom(_, _, _)
RunReceiverFrom(st, dgs, k) ==
    IF k > Len(dgs) \/ st.pc # "loop"
    THEN st
    ELSE RunReceiverFrom([pc |-> ReceiverAfter(receive_artnet(dgs[k])),
                          sent |-> st.sent \o receive_artnet(dgs[k]).action],
                         dgs, k + 1)

RunReceiver(dgs) == RunReceiverFrom([pc |-> "loop", sent |-> <<>>], dgs, 1)

CallMidi ==
    /\ tArgs.fn = "midi" /\ tRes = NoCall
    /\ tRes' = [fn |-> "midi", action |-> midi_callback(tArgs.msg).action,
                osc |-> midi_callback(tArgs.msg).osc]
    /\ UNCHANGED <<sysVars, tArgs>>

CallReceive ==
    /\ tArgs.fn = "receive" /\ tRes = NoCall
    /\ tRes' = [fn |-> "receive", pc |-> RunReceiver(tArgs.dgs).pc,
                sent |-> RunReceiver(tArgs.dgs).sent]
    /\ UNCHANGED <<sysVars, tArgs>>

CallRescale ==
    /\ tArgs.fn = "rescale" /\ tRes = NoCall
    /\ tRes' = [fn |-> "rescale", panicked |-> FALSE,
                data |-> rescale_universe(tArgs.scale, tArgs.data)]
    /\ UNCHANGED <<sysVars, tArgs>>

CallRemap ==
    /\ tArgs.fn = "remap" /\ tRes = NoCall
    /\ LET out == remap_universe(tArgs.remappings, tArgs.data)
       IN  tRes' = [fn |-> "remap", panicked |-> out.panicked, data |-> out.data]
    /\ UNCHANGED <<sysVars, tArgs>>

InitTransform ==
    /\ midiOpen = TRUE
    /\ queue = <<>>
    /\ oscQueue = <<>>
    /\ scale = ONE
    /\ mainPc = "loop"
    /\ oscPc = "loop"
    /\ effects = <<>>
    /\ handled = <<>>
    /\ oscSent = <<>>
    /\ oscHandled = <<>>
    /\ tArgs \in RescaleCalls \cup RemapCalls \cup MidiCalls \cup ReceiveCalls
    /\ tRes = NoCall
    /\ recvPc = "loop"
    /\ produced = [p \in Producers |-> <<>>]

NextTransform ==
    \/ CallRescale
    \/ CallRemap
    \/ CallMidi
    \/ CallReceive

SpecTransform == InitTransform /\ [][NextTransform]_vars

\* ------------------------------------------------- reading the history

\* The place in `handled` of the message numbered id.
EntryOf(id) == CHOOSE k \in 1..Len(handled) : handled[k].id = id

\* The value of the last ScaleUpdate received before handled[k]; 1.0 if none.
RECURSIVE LastScaleBefore(_)
LastScaleBefore(k) ==
    IF k <= 1
    THEN ONE
    ELSE IF handled[k - 1].msg.type = "Scale"
         THEN handled[k - 1].msg.val
         ELSE LastScaleBefore(k - 1)

\* The scale the loop holds once handled[k] has been dealt with.
ScaleAfter(k) == IF k < Len(handled) THEN handled[k + 1].scale ELSE scale

EffectsOf(id) == {i \in 1..Len(effects) : effects[i].id = id}

Outputs(es) == SelectSeq(es, LAMBDA e : e.kind = "Output")

PayloadsOf(es) == [i \in 1..Len(es) |-> es[i].data]

\* ------------------------------------------------------------------ claims

\* C1: the spec's example run: ScaleUpdate(0.5), UniverseFrame(0,[200]),
\* ScaleUpdate(1.0), UniverseFrame(0,[200]) on universe 0 (rescale=true).
ExamplePayloads ==
    PayloadsOf(Outputs(RunLoop(<< ScaleMsg(ONE \div 2), PacketMsg(0, <<200>>),
                                  ScaleMsg(ONE), PacketMsg(0, <<200>>) >>).effects))

\* C1: every Output emitted for a frame of a universe configured with
\* rescale=true carries the frame's payload rescaled with the value of the
\* last ScaleUpdate received before that frame (1.0 if there is none), and
\* stays so whatever is received later; the example run emits [100], [200].
C1_ScaleAppliedInQueueOrder ==
    /\ \A i \in 1..Len(effects) :
          LET e == effects[i] IN
          (e.kind = "Output" /\ e.universe \in DOMAIN actions
              /\ actions[e.universe].rescale)
          => LET k == EntryOf(e.id) IN
             e.data = AfterRemap(actions[e.universe],
                                 rescale_universe(LastScaleBefore(k),
                                                  handled[k].msg.data)).data
    /\ ExamplePayloads = << <<100>>, <<200>> >>

\* C1 witness: a ScaleUpdate below 1.0, then a frame of a rescaled universe
\* emitted with a changed payload, then another ScaleUpdate received after it.
C1_Witness ==
    /\ Len(handled) = 3
    /\ handled[1].msg.type = "Scale" /\ handled[1].msg.val < ONE
    /\ handled[2].msg.type = "Packet" /\ handled[2].msg.universe = 0
    /\ handled[3].msg.type = "Scale" /\ handled[3].msg.val = ONE
    /\ \E i \in 1..Len(effects) :
          /\ effects[i].kind = "Output" /\ effects[i].id = 2
          /\ effects[i].data # handled[2].msg.data
          /\ effects[i].data = rescale_universe(handled[1].msg.val,
                                                handled[2].msg.data)

\* C2: the effects (scale assignments, Output sends, poll replies) are in the
\* order their messages arrived: messages are received in arrival order, none
\* skipped; each effect is the effect of one received message, of that
\* message's kind; a message has at most one effect and effects of an earlier
\* message precede those of a later one.
C2_EffectsInArrivalOrder ==
    /\ \A k \in 1..Len(handled) : handled[k].id = k
    /\ \A i \in 1..Len(queue) : queue[i].id = Len(handled) + i
    /\ \A i \in 1..Len(effects) :
          /\ effects[i].id \in 1..Len(handled)
          /\ LET h == handled[effects[i].id] IN
             \/ /\ effects[i].kind = "Scale" /\ h.msg.type = "Scale"
                /\ effects[i].val = h.msg.val
             \/ /\ effects[i].kind = "PollReply" /\ h.msg.type = "PollResp"
                /\ effects[i].dest = h.msg.addr
             \/ /\ effects[i].kind = "Output" /\ h.msg.type = "Packet"
                /\ effects[i].universe = h.msg.universe
    /\ \A i, j \in 1..Len(effects) : i < j => effects[i].id < effects[j].id
    /\ \A k \in 1..Len(handled) :
          handled[k].outcome \in {"scaled", "sent", "send_failed"}
          => EffectsOf(k) # {}

\* C2 witness: three messages of the three kinds received, three effects.
C2_Witness ==
    /\ Len(effects) = 3
    /\ {effects[i].kind : i \in 1..3} = {"Scale", "PollReply", "Output"}
    /\ effects[1].kind = "Output" /\ effects[3].kind = "PollReply"

\* C3: a UniverseFrame whose universe has no entry in the action table is
\* dropped: no send is made for it and the scale (and the loop) is as before.
C3_UnconfiguredDropped ==
    \A k \in 1..Len(handled) :
        (handled[k].msg.type = "Packet"
            /\ handled[k].msg.universe \notin DOMAIN actions)
        => /\ handled[k].outcome = "dropped"
           /\ EffectsOf(handled[k].id) = {}
           /\ ScaleAfter(k) = handled[k].scale
           /\ (k = Len(handled) => mainPc = "loop")

\* C3 witness: a frame of universe 3 received while the scale is below 1.0,
\* between two relayed frames.
C3_Witness ==
    /\ Len(handled) = 3
    /\ handled[1].msg.type = "Scale" /\ handled[1].msg.val < ONE
    /\ handled[2].msg.type = "Packet" /\ handled[2].msg.universe = 3
    /\ handled[2].msg.data = <<7, 255>>
    /\ handled[3].msg.type = "Packet" /\ handled[3].outcome = "sent"
    /\ Len(effects) = 2

\* C4: every poll the loop receives gets one reply: a PollReply with the
\* short name "rescaler", handed to send_to for the poll's source IP on port
\* 6454 (unless building the reply failed, when nothing is sent); the scale is
\* as before and no Output is emitted for it.
C4_PollAnsweredOnce ==
    \A k \in 1..Len(handled) :
        handled[k].msg.type = "PollResp"
        => /\ handled[k].outcome \in {"sent", "send_failed", "encode_failed"}
           /\ Cardinality(EffectsOf(handled[k].id))
                 = (IF handled[k].outcome = "encode_failed" THEN 0 ELSE 1)
           /\ \A i \in EffectsOf(handled[k].id) :
                 /\ effects[i].kind = "PollReply"
                 /\ effects[i].dest = <<handled[k].msg.from[1], PORT>>
                 /\ effects[i].name = "rescaler"
                 /\ effects[i].ok = (handled[k].outcome = "sent")
           /\ ScaleAfter(k) = handled[k].scale

\* C4 witness: a poll from port 40000 answered on port 6454 while the scale
\* is below 1.0.
C4_Witness ==
    /\ Len(handled) = 2
    /\ handled[1].msg.type = "Scale" /\ scale < ONE
    /\ handled[2].msg.type = "PollResp"
    /\ handled[2].msg.from = <<"192.168.0.6", 40000>>
    /\ handled[2].outcome = "sent"
    /\ effects[2].kind = "PollReply"
    /\ effects[2].dest = <<"192.168.0.6", 6454>>

\* C5: rescale_universe keeps the length and replaces each byte v by
\* floor(v * scale): the integer n with n <= v*scale < n+1; 1.0 is the
\* identity, 0.0 gives zeros, and 0.5 turns 200 into 100.
C5_RescaleTruncates ==
    tRes.fn = "rescale"
    => /\ Len(tRes.data) = Len(tArgs.data)
       /\ \A i \in 1..Len(tArgs.data) :
             LET v == tArgs.data[i]
                 n == tRes.data[i]
             IN  /\ n \in 0..255
                 /\ n * ScaleDen <= v * tArgs.scale
                 /\ v * tArgs.scale < (n + 1) * ScaleDen
                 /\ (tArgs.scale = 0 => n = 0)
                 /\ (tArgs.scale = ONE \div 2 /\ v = 200 => n = 100)
       /\ (tArgs.scale = ONE => tRes.data = tArgs.data)

\* C5 witness: every byte value rescaled by 0.5: 200 gives 100 and 201 gives
\* 100 as well (100.5 truncated).
C5_Witness ==
    /\ tRes.fn = "rescale"
    /\ tArgs.scale = ONE \div 2
    /\ tArgs.data = AllBytes
    /\ tRes.data[201] = 100 /\ tRes.data[202] = 100 /\ tRes.data[256] = 127

\* The rules of a call that are not skipped, by their place in the list.
AppliedRules(remappings, input) ==
    {k \in 1..Len(remappings) : SourceInRange(remappings[k], input)}

Covers(remap, p) == remap.new_start < p /\ p <= remap.new_start + remap.length

MaxOf(S) == CHOOSE x \in S : \A y \in S : y <= x

\* C6 as stated: remap_universe always returns a 512-byte buffer in which every
\* applied rule's destination range holds that rule's source bytes and every
\* other position is 0.
C6_EveryAppliedRuleHolds ==
    tRes.fn = "remap"
    => /\ ~tRes.panicked
       /\ Len(tRes.data) = BufLen
       /\ \A k \in AppliedRules(tArgs.remappings, tArgs.data) :
             \A q \in 1..tArgs.remappings[k].length :
                 tRes.data[tArgs.remappings[k].new_start + q]
                     = tArgs.data[tArgs.remappings[k].start + q]
       /\ \A p \in 1..BufLen :
             (\A k \in AppliedRules(tArgs.remappings, tArgs.data) :
                 ~Covers(tArgs.remappings[k], p))
             => tRes.data[p] = 0

\* C6 amended: remap_universe aborts exactly when an applied rule has
\* dest_start+length > 512; otherwise it returns a 512-byte buffer in which a
\* position covered by applied rules holds the source byte of the last such
\* rule in the list, and every other position is 0.  Rule {0,3,10} on
\* [1,2,3,4] gives 1,2,3 at positions 10-12.
C6_LastAppliedRuleHolds ==
    tRes.fn = "remap"
    => LET rs == tArgs.remappings
           applied == AppliedRules(rs, tArgs.data)
       IN  /\ tRes.panicked <=> (\E k \in applied : ~DestInRange(rs[k]))
           /\ ~tRes.panicked
              => /\ Len(tRes.data) = BufLen
                 /\ \A p \in 1..BufLen :
                       LET ks == {k \in applied : Covers(rs[k], p)}
                       IN  tRes.data[p] =
                             IF ks = {} THEN 0
                             ELSE tArgs.data[rs[MaxOf(ks)].start
                                             + (p - rs[MaxOf(ks)].new_start)]
           /\ (rs = << [start |-> 0, length |-> 3, new_start |-> 10] >>
                  /\ tArgs.data = <<1, 2, 3, 4>>)
              => /\ SubSeq(tRes.data, 11, 13) = <<1, 2, 3>>
                 /\ \A p \in (1..BufLen) \ (11..13) : tRes.data[p] = 0

\* C6 witness: rule {0,3,10} then rule {0,2,11} on [1,2,3,4]: positions 10-12
\* hold 1,1,2, the second rule's bytes over the first's.
C6_Witness ==
    /\ tRes.fn = "remap" /\ ~tRes.panicked
    /\ tArgs.remappings = << [start |-> 0, length |-> 3, new_start |-> 10],
                             [start |-> 0, length |-> 2, new_start |-> 11] >>
    /\ tArgs.data = <<1, 2, 3, 4>>
    /\ SubSeq(tRes.data, 11, 13) = <<1, 1, 2>>
    /\ Len(tRes.data) = 512

\* C7, for remap_universe on its own: the result of a call is the result of
\* the call without its skipped rules.
RemapSkipLaw ==
    \A call \in RemapCalls :
        remap_universe(call.remappings, call.data)
            = remap_universe(SelectSeq(call.remappings,
                                       LAMBDA r : SourceInRange(r, call.data)),
                             call.data)

\* C7: a rule whose source range exceeds the input is skipped and writes
\* nothing; the other rules are applied as if it were absent, and the frame
\* goes on to be encoded and sent with the buffer they give.
C7_SkippedRuleLeavesOthers ==
    /\ RemapSkipLaw
    /\ \A k \in 1..Len(handled) :
          LET h == handled[k] IN
          (h.msg.type = "Packet" /\ h.msg.universe \in DOMAIN actions
              /\ \E j \in 1..Len(actions[h.msg.universe].remap) :
                    ~SourceInRange(actions[h.msg.universe].remap[j], h.msg.data))
          => LET action == actions[h.msg.universe]
                 kept == SelectSeq(action.remap,
                                   LAMBDA r : SourceInRange(r, h.msg.data))
                 exp == remap_universe(kept,
                                       AfterRescale(action, h.scale, h.msg.data))
             IN  /\ (h.outcome = "panicked") <=> exp.panicked
                 /\ h.outcome \in {"sent", "send_failed"} => EffectsOf(h.id) # {}
                 /\ \A i \in EffectsOf(h.id) :
                       effects[i].kind = "Output" /\ effects[i].data = exp.data

\* C7 witness: [200] for universe 1: rule {0,2,20} is skipped, rule {0,1,10}
\* applied, and the frame is sent with 200 at position 10 and 0 at 20.
C7_Witness ==
    /\ Len(handled) = 1
    /\ handled[1].msg.type = "Packet" /\ handled[1].msg.universe = 1
    /\ handled[1].msg.data = <<200>>
    /\ handled[1].outcome = "sent"
    /\ Len(effects) = 1 /\ effects[1].kind = "Output"
    /\ effects[1].data[11] = 200 /\ effects[1].data[21] = 0
    /\ Len(effects[1].data) = 512

\* How the handling of handled[k] ended, as the encode and send results.
EncOkOf(k) == handled[k].outcome # "encode_failed"

SendOkOf(k) == handled[k].outcome # "send_failed"

\* What receiving handled[k] does in a loop whose scale is the last ScaleUpdate
\* before it: the effects, and whether the loop goes on.
ExpectedStep(k) ==
    Step([scale |-> LastScaleBefore(k), effects |-> <<>>, handled |-> <<>>,
          pc |-> "loop"],
         handled[k].id, handled[k].msg, EncOkOf(k), SendOkOf(k))

\* C8: a failed encode or send leaves the loop running and the scale as it
\* was, and every message received after it is handled as the ScaleUpdates
\* alone determine: with the same effect as in a run without the failure.
C8_FailureIsLocal ==
    \A k \in 1..Len(handled) :
        handled[k].outcome \in {"encode_failed", "send_failed"}
        => /\ ScaleAfter(k) = handled[k].scale
           /\ (k = Len(handled) => mainPc = "loop")
           /\ \A j \in (k + 1)..Len(handled) :
                 /\ handled[j].scale = LastScaleBefore(j)
                 /\ [i \in 1..Len(ExpectedStep(j).effects) |->
                        ExpectedStep(j).effects[i]]
                    = SelectSeq(effects, LAMBDA e : e.id = handled[j].id)

\* C8 witness: a scale below 1.0, then a message whose encode or send fails,
\* then a frame of universe 0 sent rescaled.
C8_Witness ==
    /\ Len(handled) = 3
    /\ handled[1].msg.type = "Scale" /\ handled[1].msg.val < ONE
    /\ handled[2].outcome \in {"encode_failed", "send_failed"}
    /\ handled[3].msg.type = "Packet" /\ handled[3].msg.universe = 0
    /\ handled[3].outcome = "sent"
    /\ effects[Len(effects)].data
          = rescale_universe(handled[1].msg.val, handled[3].msg.data)
    /\ mainPc = "loop"

OscSendsOf(k) == {i \in 1..Len(oscSent) : oscSent[i].n = k}

\* C9: an event with an unmapped control sends nothing and the forwarder keeps
\* running; every event with a mapped control, before or after, gets its one
\* OSC message, to the mapped address and with value/127 (handed to send_to
\* unless encoding failed).
C9_UnmappedIsSkipped ==
    \A k \in 1..Len(oscHandled) :
        LET ev == oscHandled[k].ev IN
        IF ev[1] \notin DOMAIN mapping
        THEN /\ oscHandled[k].outcome = "unmapped"
             /\ OscSendsOf(k) = {}
             /\ (k = Len(oscHandled) => oscPc = "loop")
        ELSE /\ oscHandled[k].outcome \in {"sent", "send_failed", "encode_failed"}
             /\ Cardinality(OscSendsOf(k))
                   = (IF oscHandled[k].outcome = "encode_failed" THEN 0 ELSE 1)
             /\ \A i \in OscSendsOf(k) :
                   /\ oscSent[i].msg.addr = mapping[ev[1]]
                   /\ oscSent[i].msg.arg * MidiMax = ev[2] * ScaleDen
                   /\ oscSent[i].dest = osc_dest
                   /\ oscSent[i].ok = (oscHandled[k].outcome = "sent")

\* C9 witness: a mapped event, an unmapped one, a mapped one: two messages
\* sent, the forwarder running.
C9_Witness ==
    /\ Len(oscHandled) = 3
    /\ oscHandled[1].outcome = "sent"
    /\ oscHandled[2].outcome = "unmapped"
    /\ oscHandled[3].outcome = "sent"
    /\ Len(oscSent) = 2 /\ oscSent[2].n = 3
    /\ oscPc = "loop"

\* C10 as stated: for every received frame of a configured universe the loop
\* goes through exactly one encode-and-send of an Output, for that universe's
\* destination on port 6454 and with the frame's universe; no Output goes
\* anywhere else.
C10_OneOutputPerConfiguredFrame ==
    /\ \A k \in 1..Len(handled) :
          (handled[k].msg.type = "Packet"
              /\ handled[k].msg.universe \in DOMAIN actions)
          => /\ handled[k].outcome \in {"sent", "send_failed", "encode_failed"}
             /\ Cardinality(EffectsOf(handled[k].id))
                   = (IF handled[k].outcome = "encode_failed" THEN 0 ELSE 1)
             /\ \A i \in EffectsOf(handled[k].id) :
                   /\ effects[i].kind = "Output"
                   /\ effects[i].universe = handled[k].msg.universe
                   /\ effects[i].dest
                         = <<actions[handled[k].msg.universe].destination, PORT>>
    /\ \A i \in 1..Len(effects) :
          effects[i].kind = "Output"
          => \E k \in 1..Len(handled) :
                /\ handled[k].id = effects[i].id
                /\ handled[k].msg.type = "Packet"
                /\ handled[k].msg.universe \in DOMAIN actions

\* C11 as stated: in every call of remap_universe on a payload of at most 512
\* bytes every rule that is not skipped has dest_start+length <= 512, and the
\* call returns: no copy indexes the buffer out of range.
C11_CopyStaysInBuffer ==
    tRes.fn = "remap"
    => /\ Len(tArgs.data) <= BufLen
       /\ \A k \in AppliedRules(tArgs.remappings, tArgs.data) :
             DestInRange(tArgs.remappings[k])
       /\ ~tRes.panicked

\* C12 as stated: while the process is alive (its main thread, which runs the
\* dispatch loop, has not ended) the network receive loop and the OSC
\* forwarder loop are running as well.
C12_LoopsRunForProcessLifetime ==
    mainPc = "loop" => (recvPc = "loop" /\ oscPc = "loop")

\* The effects logged for handled[k], in order.
EffectsSeqOf(k) == SelectSeq(effects, LAMBDA e : e.id = handled[k].id)

\* C13: when the control-surface device could not be opened the dispatch loop
\* is entered all the same; no ScaleUpdate is ever produced, so the scale is
\* 1.0 throughout; and every poll and frame the receiver enqueues is handled
\* as the message and the action table determine, as with the device open.
C13_MidiFailureNotFatal ==
    ~midiOpen
    => /\ (handled = <<>> => mainPc = "loop")
       /\ scale = ONE
       /\ produced["midi"] = <<>>
       /\ \A i \in 1..Len(queue) : queue[i].msg.type \in {"PollResp", "Packet"}
       /\ \A k \in 1..Len(handled) :
             /\ handled[k].msg.type \in {"PollResp", "Packet"}
             /\ handled[k].scale = ONE
             /\ handled[k].outcome = ExpectedStep(k).handled[1].outcome
             /\ EffectsSeqOf(k) = ExpectedStep(k).effects
             /\ (k = Len(handled) => mainPc = ExpectedStep(k).pc)

\* C13 witness: the device failed to open, and a poll, a frame of universe 0
\* and a frame of universe 1 were answered and relayed, the first frame
\* unscaled.
C13_Witness ==
    /\ ~midiOpen
    /\ Len(handled) = 3 /\ Len(effects) = 3
    /\ handled[1].msg.type = "PollResp" /\ effects[1].kind = "PollReply"
    /\ handled[2].msg = PacketMsg(0, <<200>>)
    /\ effects[2].kind = "Output" /\ effects[2].data = <<200>>
    /\ handled[3].msg = PacketMsg(1, <<7, 255>>)
    /\ effects[3].kind = "Output" /\ effects[3].ok
    /\ mainPc = "loop" /\ scale = ONE

\* A step leaves the scale alone unless it is the dispatch loop receiving a
\* ScaleUpdate, which stores the carried value; a step that receives a poll or
\* a frame, however it ends, leaves it alone.
ScaleWrittenOnlyByScaleUpdate ==
    /\ scale' # scale
       => /\ mainPc = "loop" /\ queue # <<>>
          /\ Head(queue).msg.type = "Scale"
          /\ Len(handled') = Len(handled) + 1
    /\ Len(handled') = Len(handled) + 1
       => /\ handled'[Len(handled')].msg = Head(queue).msg
          /\ handled'[Len(handled')].scale = scale
          /\ scale' = IF Head(queue).msg.type = "Scale"
                      THEN Head(queue).msg.val
                      ELSE scale

\* C14: the scale is 1.0 at startup, is always in [0.0, 1.0], and changes only
\* when the dispatch loop receives a ScaleUpdate, to exactly the carried value;
\* receiving a poll or a frame leaves it unchanged, and no step of another
\* thread changes it.
C14_ScaleOwnedByDispatch ==
    /\ scale = ONE
    /\ [](scale \in 0..ScaleDen)
    /\ [][ScaleWrittenOnlyByScaleUpdate]_vars

\* C14 witness: the scale set to 64/127, then a poll answered and a frame
\* dropped or failed, the scale still 64/127.
C14_Witness ==
    /\ Len(handled) = 3
    /\ handled[1].msg.type = "Scale"
    /\ handled[1].msg.val * MidiMax = 64 * ScaleDen
    /\ handled[2].msg.type = "PollResp" /\ handled[2].outcome = "sent"
    /\ handled[3].msg.type = "Packet"
    /\ handled[3].outcome \in {"dropped", "encode_failed", "send_failed"}
    /\ scale = handled[1].msg.val /\ scale # ONE

\* The thread that sends a message of this kind: only the control-surface
\* closure sends Scale, only the receiver sends PollResp and Packet.
ProducerOf(msg) == IF msg.type = "Scale" THEN "midi" ELSE "net"

\* The messages the dispatch loop has received, then those still in the
\* channel, in order.
ConsumedThenQueued ==
    [k \in 1..Len(handled) |-> handled[k].msg]
        \o [i \in 1..Len(queue) |-> queue[i].msg]

\* C15: whatever the interleaving of the receiver and the control-surface
\* closure, the messages of each producer are received by the dispatch loop in
\* the order that producer sent them, none lost and none twice: the received
\* messages of a producer followed by its messages still queued are exactly
\* what it has sent, in order.
C15_PerProducerFifo ==
    \A p \in Producers :
        SelectSeq(ConsumedThenQueued, LAMBDA m : ProducerOf(m) = p) = produced[p]

\* C15 witness: the receiver sent a frame and then a poll, the closure a
\* ScaleUpdate in between or around them; the ScaleUpdate and the frame have
\* been received, the poll is still queued.
C15_Witness ==
    /\ Len(produced["net"]) = 2 /\ Len(produced["midi"]) = 1
    /\ produced["net"][1].type = "Packet" /\ produced["net"][2].type = "PollResp"
    /\ Len(handled) = 2
    /\ handled[1].msg = produced["midi"][1]
    /\ handled[2].msg = produced["net"][1]
    /\ Len(queue) = 1 /\ queue[1].msg = produced["net"][2]

\* C16: a control-surface event sends at most one message in all: a control
\* change of the designated scale control sends one ScaleUpdate(value/127) on
\* the dispatch channel and nothing on the OSC channel; any other control
\* change sends one (identifier, value) pair on the OSC channel and nothing on
\* the dispatch channel; every other kind of event sends nothing.
C16_MidiEventRouting ==
    tRes.fn = "midi"
    => LET m == tArgs.msg
           isCC == m[1] \div 16 = 11
           control == <<m[1] % 16, m[2]>>
       IN  /\ Len(tRes.action) + Len(tRes.osc) <= 1
           /\ (isCC /\ control = rescale_control)
              => /\ tRes.osc = <<>>
                 /\ Len(tRes.action) = 1
                 /\ tRes.action[1].type = "Scale"
                 /\ tRes.action[1].val * MidiMax = m[3] * ScaleDen
           /\ (isCC /\ control # rescale_control)
              => /\ tRes.action = <<>>
                 /\ tRes.osc = << <<control, m[3]>> >>
           /\ ~isCC => (tRes.action = <<>> /\ tRes.osc = <<>>)

\* C16 witness: control change 1 on channel 0 (the scale control) with value
\* 64: one ScaleUpdate(64/127), nothing for OSC.
C16_Witness ==
    /\ tRes.fn = "midi"
    /\ tArgs.msg = <<176, 1, 64>>
    /\ Len(tRes.action) = 1 /\ tRes.action[1].val = 128
    /\ tRes.osc = <<>>

\* The datagrams of a run that are a Poll or an Output, in order.
PollsAndOutputs(dgs) == SelectSeq(dgs, LAMBDA dg : dg.kind \in {"Poll", "Output"})

\* C17: after any run of datagrams the receive loop is still looping, and what
\* it has sent to the dispatch loop is one message for each Poll and each
\* Output of the run, in order, a PollReceived for the poll's source IP and
\* port 6454 or a UniverseFrame with the Output's universe and payload: a
\* datagram that fails to decode or is of another kind adds nothing and costs
\* no later datagram its message.
C17_ReceiverSurvivesDatagrams ==
    tRes.fn = "receive"
    => LET good == PollsAndOutputs(tArgs.dgs) IN
       /\ tRes.pc = "loop"
       /\ Len(tRes.sent) = Len(good)
       /\ \A i \in 1..Len(good) :
             IF good[i].kind = "Poll"
             THEN /\ tRes.sent[i].type = "PollResp"
                  /\ tRes.sent[i].addr = <<good[i].from[1], PORT>>
             ELSE /\ tRes.sent[i].type = "Packet"
                  /\ tRes.sent[i].universe = good[i].universe
                  /\ tRes.sent[i].data = good[i].data

\* C17 witness: a datagram that fails to decode, then an Output for universe 0:
\* the loop goes on and sends the one frame.
C17_Witness ==
    /\ tRes.fn = "receive"
    /\ Len(tArgs.dgs) = 2
    /\ tArgs.dgs[1].kind = "Malformed"
    /\ tArgs.dgs[2].kind = "Output"
    /\ tRes.sent = <<PacketMsg(0, <<200>>)>>
    /\ tRes.pc = "loop"

\* The source byte rule remap copies to position p of the buffer.
SourceByte(remap, input, p) == input[remap.start + (p - remap.new_start)]

\* C18: the rules are applied in the order of the list: the buffer a call
\* returns is the buffer of the rules before its last applied rule with that
\* rule's copy made on top; so where the destination ranges of two applied
\* rules overlap, each position the later one covers holds the later one's
\* byte, whatever the earlier one wrote (unless a rule later still covers it).
C18_LaterRuleWinsOverlap ==
    (tRes.fn = "remap" /\ ~tRes.panicked)
    => LET rs == tArgs.remappings
           applied == AppliedRules(rs, tArgs.data)
       IN  /\ applied # {}
              => tRes.data
                   = CopyRule(rs[MaxOf(applied)], tArgs.data,
                              remap_universe(SubSeq(rs, 1, MaxOf(applied) - 1),
                                             tArgs.data).data)
           /\ \A j \in applied : \A k \in applied :
                 j < k
                 => \A p \in 1..BufLen :
                       (Covers(rs[j], p) /\ Covers(rs[k], p)
                          /\ \A n \in applied : n > k => ~Covers(rs[n], p))
                       => tRes.data[p] = SourceByte(rs[k], tArgs.data, p)

\* C18 witness: rule {0,2,10} then rule {0,2,11} on [1,2,3]: the ranges share
\* position 11, where the first rule wrote 2 and the second then wrote 1;
\* positions 10-12 hold 1,1,2.
C18_Witness ==
    /\ tRes.fn = "remap" /\ ~tRes.panicked
    /\ tArgs.remappings = << [start |-> 0, length |-> 2, new_start |-> 10],
                             [start |-> 0, length |-> 2, new_start |-> 11] >>
    /\ tArgs.data = <<1, 2, 3>>
    /\ SubSeq(tRes.data, 11, 13) = <<1, 1, 2>>
    /\ SourceByte(tArgs.remappings[1], tArgs.data, 12) = 2

\* What the loop emits for a frame received first, with the scale s: at most
\* one Output.
FreshOutputs(msg, s) ==
    Outputs(Step([scale |-> s, effects |-> <<>>, handled |-> <<>>, pc |-> "loop"],
                 0, msg, TRUE, TRUE).effects)

\* The payload and destination of an Output.
Emitted(e) == [universe |-> e.universe, data |-> e.data, dest |-> e.dest]

\* C19: the Output emitted for a frame is the one the loop emits for that frame
\* received first with the scale of the last ScaleUpdate before it: its
\* universe, payload and destination are a function of the frame, the action
\* table and that scale.  So two frames with the same content and the same
\* ScaleUpdates before them get the same Output, whatever polls and frames,
\* configured or not, sent or failed, were received before either.
C19_OutputIsFunctionOfFrameAndScale ==
    /\ \A i \in 1..Len(effects) :
          effects[i].kind = "Output"
          => LET k == EntryOf(effects[i].id)
                 fresh == FreshOutputs(handled[k].msg, LastScaleBefore(k))
             IN  /\ Len(fresh) = 1
                 /\ Emitted(effects[i]) = Emitted(fresh[1])
    /\ \A i \in 1..Len(effects) : \A j \in 1..Len(effects) :
          (effects[i].kind = "Output" /\ effects[j].kind = "Output"
              /\ handled[EntryOf(effects[i].id)].msg
                    = handled[EntryOf(effects[j].id)].msg
              /\ LastScaleBefore(EntryOf(effects[i].id))
                    = LastScaleBefore(EntryOf(effects[j].id)))
          => Emitted(effects[i]) = Emitted(effects[j])

\* C19 witness: the frame [7,255] of universe 1 sent, then the frame [200] of
\* the same universe whose send failed, then [7,255] again: the first and the
\* third Output are the same, and unlike the second.
C19_Witness ==
    /\ Len(handled) = 3 /\ Len(effects) = 3
    /\ handled[1].msg = PacketMsg(1, <<7, 255>>) /\ handled[1].outcome = "sent"
    /\ handled[2].msg = PacketMsg(1, <<200>>)
    /\ handled[2].outcome = "send_failed"
    /\ handled[3].msg = handled[1].msg /\ handled[3].outcome = "sent"
    /\ Emitted(effects[1]) = Emitted(effects[3])
    /\ Emitted(effects[1]) # Emitted(effects[2])

\* Message number i is in the dispatch channel.
Enqueued(i) == \E j \in 1..Len(queue) : queue[j].id = i

\* Message number i has been received and its handling has run to its end.
Completed(i) ==
    \E k \in 1..Len(handled) :
        handled[k].id = i /\ handled[k].outcome # "panicked"

\* C20 as stated: with the dispatch loop scheduled fairly, every message that
\* is enqueued on the dispatch channel is eventually received and its handling
\* runs to completion.
C20_EveryMessageHandled ==
    \A i \in 1..MaxMsgs : Enqueued(i) ~> Completed(i)

====
